---- MODULE Spec2Model ----
(***************************************************************************)
(* Model of src/src/index.ts: a Hono application with four routes          *)
(* (signup, signin, create todo, list todos), an authentication            *)
(* middleware registered between the public and the protected routes, and  *)
(* a Prisma store of User and Todo rows.                                    *)
(*                                                                         *)
(* Representation.  A JavaScript string that the code takes apart is a     *)
(* sequence of its pieces: the Authorization header is the sequence of its *)
(* space-separated fields, a stored credential is a sequence of            *)
(* characters.  A missing JSON field is Undefined.  An optional value is   *)
(* a sequence of length 0 or 1.  Timestamps of Todo rows are left out: no  *)
(* handler reads them.                                                     *)
(***************************************************************************)
EXTENDS Integers, Sequences, FiniteSets, TLC

\* ------------------------------------------------------------------ bounds
MaxUsers == 2
MaxTodos == 2
MaxInFlight == 2

\* --------------------------------------------------------------- JS values
Undefined == "<undefined>"

\* !v for a value that is a string or undefined
Falsy(v) == v = Undefined \/ v = ""

\* ------------------------------------------------ password hashing (75-89)
SaltLen == 16
DkLen == 32

RECURSIVE SumTo(_, _)
SumTo(s, n) == IF n = 0 THEN 0 ELSE s[n] + SumTo(s, n - 1)

SumSeq(s) == SumTo(s, Len(s))

Passwords == {"hunter2", "letmein"}

Utf8(s) ==
  CASE s = "hunter2" -> <<104, 117, 110, 116, 101, 114, 50>>
    [] s = "letmein" -> <<108, 101, 116, 109, 101, 105, 110>>
    [] OTHER -> <<>>

\* crypto.getRandomValues(new Uint8Array(16)): the salts the model draws from
SaltSeeds == {7, 200}
getRandomValues == {[i \in 1..SaltLen |-> (b + i) % 256] : b \in SaltSeeds}

\* scrypt(password, salt, {N, r, p, dkLen}): a deterministic key of dkLen
\* bytes.  The mixing is a stand-in for the key derivation: what the handlers
\* use of it is that it is a function of (password, salt) and that distinct
\* inputs of the model give distinct keys.
scrypt(password, salt, dkLen) ==
  LET mix == (SumSeq(Utf8(password)) * 31 + SumSeq(salt) * 17) % 256
  IN [i \in 1..dkLen |-> (mix + i * 7) % 256]

HexDigits ==
  <<"0", "1", "2", "3", "4", "5", "6", "7",
    "8", "9", "a", "b", "c", "d", "e", "f">>

HexVal(c) == (CHOOSE n \in 1..16 : HexDigits[n] = c) - 1

bytesToHex(bytes) ==
  [i \in 1..(2 * Len(bytes)) |->
     IF i % 2 = 1 THEN HexDigits[(bytes[(i + 1) \div 2] \div 16) + 1]
                  ELSE HexDigits[(bytes[i \div 2] % 16) + 1]]

hexToBytes(hex) ==
  [i \in 1..(Len(hex) \div 2) |->
     HexVal(hex[2 * i - 1]) * 16 + HexVal(hex[2 * i])]

\* String.prototype.split(sep) on a sequence of characters: the pieces between
\* the occurrences of sep
split(s, sep) ==
  LET seps == {i \in 1..Len(s) : s[i] = sep}
      n == Cardinality(seps) + 1
      cut(k) == IF k = 0 THEN 0
                ELSE IF k = n THEN Len(s) + 1
                ELSE CHOOSE i \in seps : Cardinality({j \in seps : j < i}) = k - 1
  IN [k \in 1..n |-> SubSeq(s, cut(k - 1) + 1, cut(k) - 1)]

\* parts[i] of a destructuring; a missing part and the empty string are both
\* falsy, and falsiness is all that is read of either
Part(parts, i) == IF i <= Len(parts) THEN parts[i] ELSE <<>>

\* hashPassword joining salt and hash with a separator verifyPassword does not
\* split on
hashPasswordDollar(password, salt) ==
  bytesToHex(salt) \o <<"$">> \o bytesToHex(scrypt(password, salt, DkLen))

hashPassword(password, salt) ==
  bytesToHex(salt) \o <<":">> \o bytesToHex(scrypt(password, salt, DkLen))

\* verifyPassword comparing the lengths of the two hex strings, not the strings
verifyPasswordLengthOnly(password, hashedPassword) ==
  LET parts == split(hashedPassword, ":")
      saltHex == Part(parts, 1)
      hashHex == Part(parts, 2)
  IN IF saltHex = <<>> \/ hashHex = <<>> THEN FALSE
     ELSE Len(bytesToHex(scrypt(password, hexToBytes(saltHex), DkLen))) = Len(hashHex)

verifyPassword(password, hashedPassword) ==
  LET parts == split(hashedPassword, ":")
      saltHex == Part(parts, 1)
      hashHex == Part(parts, 2)
  IN IF saltHex = <<>> \/ hashHex = <<>> THEN FALSE
     ELSE bytesToHex(scrypt(password, hexToBytes(saltHex), DkLen)) = hashHex

\* ------------------------------------------------------ jsonwebtoken (4)
Ok(v) == [ok |-> TRUE, val |-> <<v>>, err |-> ""]
Throw(e) == [ok |-> FALSE, val |-> <<>>, err |-> e]

\* a header field that is plain text, and one that is a three-part JWT
Str(s) == <<"str", s>>
Hmac(key, payload) == <<key, payload>>
Jwt(payload, sig) == <<"jwt", payload, sig>>
Payload(userId, exp) == [userId |-> userId, exp |-> exp]

jwtSign(payload, secret) ==
  IF secret = "" THEN Throw("secretOrPrivateKey must have a value")
  ELSE Ok(Jwt(payload, Hmac(secret, payload)))

jwtVerify(token, secret) ==
  IF token[1] # "jwt" THEN Throw("jwt malformed")
  ELSE IF secret = "" THEN Throw("secret or public key must be provided")
  ELSE IF token[3] # Hmac(secret, token[2]) THEN Throw("invalid signature")
  ELSE IF token[2].exp = "past" THEN Throw("jwt expired")
  ELSE Ok(token[2])

\* ------------------------------------------------------------- the state
VARIABLES
  env,       \* Env bindings: DATABASE_URL and JWT_SECRET ("" when unset)
  users,     \* User rows in insertion order: [id, email, password]
  todos,     \* Todo rows in insertion order
  inflight,  \* signup requests suspended between findFirst and create
  issued,    \* the tokens signin has returned to clients
  createdBy, \* history: for each Todo row, the user whose issued token the
             \* creating request carried (0: it carried none)
  client     \* the scripted client of the end-to-end scenario: its position
             \* and what the responses gave it (pc = "off": no such client)

vars == <<env, users, todos, inflight, issued, createdBy, client>>

Emails == {"a@x.com", "b@x.com"}
Secrets == {"", "s3cr3t"}
DbUrls == {"", "prisma://db"}
AttackerKeys == {"", "guess"}
UserIds == 1..MaxUsers
Slots == 1..MaxInFlight

Req(route, auth, email, password, title, description, completed, userId) ==
  [route |-> route, auth |-> auth, email |-> email, password |-> password,
   title |-> title, description |-> description, completed |-> completed,
   userId |-> userId]

NoReq == Req("none", <<>>, Undefined, Undefined, Undefined, Undefined, <<>>, 0)

NoResp ==
  [by |-> "none", status |-> 0, msg |-> "", ctx |-> 0, userId |-> 0,
   token |-> <<>>, todo |-> <<>>, todos |-> <<>>]

\* c.json(body, status) / c.text(body, status), with who answered
Json(by, status, msg) == [NoResp EXCEPT !.by = by, !.status = status, !.msg = msg]

\* ------------------------------------------------------ the Prisma store
\* getPrismaClient (21-73): throws when no DATABASE_URL is configured
getPrismaClient(e) ==
  IF e.DATABASE_URL = "" THEN Throw("DATABASE_URL is not set") ELSE Ok("client")

\* user.findFirst({where: {email}}): the first row with exactly that email
userFindFirst(rows, email) ==
  LET hits == SelectSeq(rows, LAMBDA u : u.email = email)
  IN IF hits = <<>> THEN <<>> ELSE <<Head(hits)>>

\* a store without the unique constraint
EmailUniqueUndeclared(rows, email) == TRUE

\* the store's unique constraint on User.email
EmailUnique(rows, email) == \A i \in 1..Len(rows) : rows[i].email # email

\* the store's foreign key Todo.userId -> User.id
UserExists(rows, id) == \E i \in 1..Len(rows) : rows[i].id = id

\* the store's default for Todo.completed
DefaultCompleted == FALSE

\* user.create({data: {email, password}}): the new row, or a thrown error
userCreate(rows, email, password) ==
  IF ~EmailUnique(rows, email)
    THEN Throw("Unique constraint failed on the fields: (email)")
    ELSE Ok([id |-> Len(rows) + 1, email |-> email, password |-> password])

\* todo.create({data: {title, description, userId}})
todoCreate(rows, userRows, title, description, userId) ==
  IF ~UserExists(userRows, userId)
    THEN Throw("Foreign key constraint failed on the field: userId")
    ELSE Ok([id |-> Len(rows) + 1, title |-> title, description |-> description,
             completed |-> DefaultCompleted, userId |-> userId])

\* findMany without its where clause
todoFindManyUnscoped(rows, userId) == rows

\* todo.findMany({where: {userId}})
todoFindMany(rows, userId) == SelectSeq(rows, LAMBDA t : t.userId = userId)

\* ---------------------------------------------------------- the requests
EmailInputs == Emails \cup {Undefined, ""}
PasswordInputs == Passwords \cup {Undefined, ""}
Garbage == Str("not-a-jwt")

\* what a client can put in a header: a token signin gave out, one of those
\* with its payload changed, one signed with a key of the client, or text
Tampered ==
  {Jwt(Payload(v, "absent"), t[3]) : v \in UserIds, t \in issued} \ issued
Forged ==
  {Jwt(Payload(v, "absent"), Hmac(k, Payload(v, "absent"))) :
     v \in UserIds, k \in AttackerKeys}
ClientTokens == issued \cup Tampered \cup Forged \cup {Garbage}

\* Authorization header values, as their space-separated fields; <<>>: no header
AuthHeaders ==
  {<<>>, << <<Str("Bearer")>> >>}
    \cup {<< <<Str("Bearer"), t>> >> : t \in ClientTokens}
    \cup {<< <<Str("Basic"), t>> >> : t \in issued \cup {Garbage}}
    \cup {<< <<t>> >> : t \in issued}
    \cup {<< <<Str("Bearer"), Str(""), t>> >> : t \in issued}

PublicAuthHeaders == {<<>>, << <<Str("Bearer"), Garbage>> >>}

SignupRequests ==
  {Req("signup", a, e, p, Undefined, Undefined, <<>>, 0) :
     a \in PublicAuthHeaders, e \in EmailInputs, p \in PasswordInputs}

SigninRequests ==
  {Req("signin", a, e, p, Undefined, Undefined, <<>>, 0) :
     a \in PublicAuthHeaders, e \in EmailInputs, p \in PasswordInputs}

\* bodies of POST /api/v1/todo: every combination of present, empty and missing
\* title and description, and for the accepted ones every completed and a
\* client-supplied userId
PlainBody == <<"t", "d", <<>>, 0>>
TodoBodies ==
  {<<t, d, <<>>, 0>> : t \in {Undefined, "", "t"}, d \in {Undefined, "", "d"}}
    \cup {<<"t", "d", c, u>> :
            c \in {<<>>, <<TRUE>>, <<FALSE>>}, u \in {0} \cup UserIds}

\* every header with the plain body, and every body under the header of an
\* issued token (sent as Bearer, and under another scheme word)
TodoRequests ==
  {Req("todo", a, Undefined, Undefined, PlainBody[1], PlainBody[2], PlainBody[3],
       PlainBody[4]) : a \in AuthHeaders}
    \cup {Req("todo", << <<Str(w), t>> >>, Undefined, Undefined,
               b[1], b[2], b[3], b[4]) :
            w \in {"Bearer", "Basic"}, t \in issued, b \in TodoBodies}

TodosRequests ==
  {Req("todos", a, Undefined, Undefined, Undefined, Undefined, <<>>, 0) :
     a \in AuthHeaders}

\* ----------------------------------------------------------- the router
\* the order in which index.ts registers its handlers and its middleware
Registered == <<"signup", "signin", "use", "todo", "todos">>

IndexOf(seq, x) == CHOOSE i \in 1..Len(seq) : seq[i] = x

\* a middleware runs for the routes registered after it
Guarded(route) == IndexOf(Registered, "use") < IndexOf(Registered, route)

\* Hono's default error handler, for what a handler or middleware throws
onError(err) == Json("onError", 500, "Internal Server Error")

\* -------------------------------------------- the Auth Middleware (191-207)
\* a secret that falls back to a built-in default, not to ''
jwtSecretDefaulted(e) == IF e.JWT_SECRET = "" THEN "secret" ELSE e.JWT_SECRET

\* c.env?.JWT_SECRET || process.env.JWT_SECRET || '' (178, 197)
jwtSecret(e) == e.JWT_SECRET

\* c.req.header('Authorization')?.split(' ')[1]
bearerToken(auth) ==
  IF auth = <<>> THEN Str(Undefined)
  ELSE IF Len(auth[1]) < 2 THEN Str(Undefined)
  ELSE auth[1][2]

\* !token
TokenFalsy(t) == t[1] = "str" /\ Falsy(t[2])

authMiddleware(r, e) ==
  LET token == bearerToken(r.auth)
  IN IF TokenFalsy(token)
       THEN [kind |-> "respond", resp |-> Json("gate", 401, "Unauthorized"), ctx |-> 0]
     ELSE LET decoded == jwtVerify(token, jwtSecret(e))
          IN IF ~decoded.ok
               THEN [kind |-> "respond", resp |-> onError(decoded.err), ctx |-> 0]
               ELSE [kind |-> "next", resp |-> NoResp, ctx |-> decoded.val[1].userId]

\* the middleware's part in answering r: it runs only when r's route is guarded
through(r) ==
  IF Guarded(r.route) THEN authMiddleware(r, env)
  ELSE [kind |-> "next", resp |-> NoResp, ctx |-> 0]

\* ------------------------------------------------ the handlers (93-258)
\* Each gives the response and the rows the store holds afterwards.

\* POST /api/v1/signup up to the await of create (95-128); kind "suspend":
\* the request goes on to hashPassword and create
signupFind(r) ==
  IF Falsy(r.email) \/ Falsy(r.password)
    THEN [kind |-> "respond",
          resp |-> Json("handler", 400, "Please provide email and password")]
  ELSE IF ~getPrismaClient(env).ok
    THEN [kind |-> "respond",
          resp |-> Json("handler", 500, "Database connection error")]
  ELSE IF userFindFirst(users, r.email) # <<>>
    THEN [kind |-> "respond", resp |-> Json("handler", 400, "User already exists")]
  ELSE [kind |-> "suspend", resp |-> NoResp]

\* POST /api/v1/signup from hashPassword on (130-151)
signupCreate(r, salt) ==
  LET hashedPassword == hashPassword(r.password, salt)
      user == userCreate(users, r.email, hashedPassword)
  IN IF ~user.ok
       THEN [resp |-> Json("handler", 500, "Internal server error"), users |-> users]
       ELSE [resp |-> [Json("handler", 200, "") EXCEPT !.userId = user.val[1].id],
             users |-> Append(users, user.val[1])]

\* POST /api/v1/signin (155-188)
signinHandler(r) ==
  IF Falsy(r.email) \/ Falsy(r.password)
    THEN Json("handler", 400, "Please provide email and password")
  ELSE IF ~getPrismaClient(env).ok
    THEN Json("handler", 500, "Internal server error")
  ELSE LET existingUser == userFindFirst(users, r.email)
       IN IF existingUser = <<>>
            THEN Json("handler", 400, "user doesn't exist")
          ELSE IF ~verifyPassword(r.password, existingUser[1].password)
            THEN Json("handler", 400, "Invalid password")
          ELSE LET token == jwtSign(Payload(existingUser[1].id, "absent"),
                                    jwtSecret(env))
               IN IF ~token.ok
                    THEN Json("handler", 500, "Internal server error")
                    ELSE [Json("handler", 200, "") EXCEPT !.token = token.val]

\* a todo handler that takes the owner from the body when the body names one
todoHandlerTrusting(r, ctx) ==
  IF Falsy(r.title) \/ Falsy(r.description)
    THEN [resp |-> Json("handler", 400, "Please provide title and description"),
          todos |-> todos]
  ELSE IF ~getPrismaClient(env).ok
    THEN [resp |-> Json("handler", 500, "Internal server error"), todos |-> todos]
  ELSE LET owner == IF r.userId # 0 THEN r.userId ELSE ctx
           todo == todoCreate(todos, users, r.title, r.description, owner)
       IN IF ~todo.ok
            THEN [resp |-> Json("handler", 500, "Internal server error"),
                  todos |-> todos]
            ELSE [resp |-> [Json("handler", 200, "") EXCEPT !.todo = todo.val],
                  todos |-> Append(todos, todo.val[1])]

\* POST /api/v1/todo (209-233)
todoHandler(r, ctx) ==
  IF Falsy(r.title) \/ Falsy(r.description)
    THEN [resp |-> Json("handler", 400, "Please provide title and description"),
          todos |-> todos]
  ELSE IF ~getPrismaClient(env).ok
    THEN [resp |-> Json("handler", 500, "Internal server error"), todos |-> todos]
  ELSE LET todo == todoCreate(todos, users, r.title, r.description, ctx)
       IN IF ~todo.ok
            THEN [resp |-> Json("handler", 500, "Internal server error"),
                  todos |-> todos]
            ELSE [resp |-> [Json("handler", 200, "") EXCEPT !.todo = todo.val],
                  todos |-> Append(todos, todo.val[1])]

\* GET /api/v1/todos (235-258)
todosHandler(r, ctx) ==
  IF TokenFalsy(bearerToken(r.auth))
    THEN Json("handler", 401, "Unauthorized")
  ELSE IF ~getPrismaClient(env).ok
    THEN Json("handler", 500, "Internal server error")
  ELSE [Json("handler", 200, "") EXCEPT !.todos = <<todoFindMany(todos, ctx)>>]

\* ------------------------------------- a request through the whole pipeline
\* what the application answers to request r in the current state: the
\* middleware when r's route is guarded, then the route's handler

signupStartAnswer(r) ==
  LET g == through(r)
  IN IF g.kind = "next" THEN signupFind(r) ELSE [kind |-> "respond", resp |-> g.resp]

signinAnswer(r) ==
  LET g == through(r)
  IN IF g.kind = "next" THEN signinHandler(r) ELSE g.resp

todoAnswer(r) ==
  LET g == through(r)
      out == IF g.kind = "next" THEN todoHandler(r, g.ctx)
             ELSE [resp |-> g.resp, todos |-> todos]
  IN [resp |-> [out.resp EXCEPT !.ctx = g.ctx], todos |-> out.todos]

todosAnswer(r) ==
  LET g == through(r)
      out == IF g.kind = "next" THEN todosHandler(r, g.ctx) ELSE g.resp
  IN [out EXCEPT !.ctx = g.ctx]

\* ------------------------------------------------------------ the actions
\* the issued tokens that appear in the Authorization header of r, and the user
\* they were issued to (0: the request carries no issued token)
Presented(r) ==
  {t \in issued :
     \E i \in 1..Len(r.auth) : \E j \in 1..Len(r.auth[i]) : r.auth[i][j] = t}

Whose(r) ==
  IF Presented(r) = {} THEN 0 ELSE (CHOOSE t \in Presented(r) : TRUE)[2].userId

\* what a suspended signup keeps of its request
Pending(r) == [email |-> r.email, password |-> r.password]
Idle == [email |-> Undefined, password |-> Undefined]

InFlightCount == Cardinality({s \in Slots : inflight[s] # Idle})

ClientOff ==
  [pc |-> "off", sent |-> NoReq, userId |-> 0, token |-> <<>>, todo |-> <<>>,
   todos |-> <<>>]

\* the scripted client after the response to its request of the given step: it
\* keeps what the response carried and moves on, or stops at a failure
see(c, step, response) ==
  IF c.pc = "off" THEN c
  ELSE IF response.status # 200 THEN [c EXCEPT !.pc = "failed"]
  ELSE IF step = "signup" THEN [c EXCEPT !.pc = "signin", !.userId = response.userId]
  ELSE IF step = "signin" THEN [c EXCEPT !.pc = "todo", !.token = response.token]
  ELSE IF step = "todo" THEN [c EXCEPT !.pc = "todos", !.todo = response.todo]
  ELSE [c EXCEPT !.pc = "done", !.todos = response.todos]

\* the scripted client records the request it sends
sends(c, r) == IF c.pc = "off" THEN c ELSE [c EXCEPT !.sent = r]

Init ==
  /\ env \in [DATABASE_URL : DbUrls, JWT_SECRET : Secrets]
  /\ users = <<>>
  /\ todos = <<>>
  /\ inflight = [s \in Slots |-> Idle]
  /\ issued = {}
  /\ createdBy = <<>>
  /\ client = ClientOff

\* a signup request arrives and runs to its response or to the await of create
SignupStart(r) ==
  /\ LET out == signupStartAnswer(r)
     IN IF out.kind = "suspend"
          THEN /\ Len(users) + InFlightCount < MaxUsers
               /\ \E s \in Slots :
                    /\ inflight[s] = Idle
                    /\ \A t \in Slots : t < s => inflight[t] # Idle
                    /\ inflight' = [inflight EXCEPT ![s] = Pending(r)]
               /\ client' = sends(client, r)
          ELSE /\ inflight' = inflight
               /\ client' = see(sends(client, r), "signup", out.resp)
  /\ UNCHANGED <<env, users, todos, issued, createdBy>>

\* a suspended signup resumes: hashPassword, create, response
SignupCreate(s, salt) ==
  /\ inflight[s] # Idle
  /\ LET out == signupCreate(inflight[s], salt)
     IN /\ users' = out.users
        /\ client' = see(client, "signup", out.resp)
  /\ inflight' = [inflight EXCEPT ![s] = Idle]
  /\ UNCHANGED <<env, todos, issued, createdBy>>

Signin(r) ==
  /\ LET out == signinAnswer(r)
     IN /\ issued' = issued \cup {out.token[i] : i \in 1..Len(out.token)}
        /\ client' = see(sends(client, r), "signin", out)
  /\ UNCHANGED <<env, users, todos, inflight, createdBy>>

CreateTodo(r) ==
  /\ LET out == todoAnswer(r)
     IN /\ Len(out.todos) <= MaxTodos
        /\ todos' = out.todos
        /\ createdBy' = IF Len(out.todos) > Len(todos)
                          THEN Append(createdBy, Whose(r)) ELSE createdBy
        /\ client' = see(sends(client, r), "todo", out.resp)
  /\ UNCHANGED <<env, users, inflight, issued>>

ListTodos(r) ==
  /\ client' = see(sends(client, r), "todos", todosAnswer(r))
  /\ UNCHANGED <<env, users, todos, inflight, issued, createdBy>>

\* requests arrive in any order and interleave at the await of create
Next ==
  \/ \E r \in SignupRequests : SignupStart(r)
  \/ \E s \in Slots, salt \in getRandomValues : SignupCreate(s, salt)
  \/ \E r \in SigninRequests : Signin(r)
  \/ \E r \in TodoRequests : CreateTodo(r)
  \/ \E r \in TodosRequests : ListTodos(r)

Spec == Init /\ [][Next]_vars

\* ------------------------------------------- the end-to-end scenario
\* One client against an empty store and a configured service, its requests
\* one after the other: signup, signin with the same credentials, create a
\* todo with the returned token, list with the same token.
Bearer(token) == << <<Str("Bearer"), token>> >>

InitE2E ==
  /\ env \in [DATABASE_URL : DbUrls \ {""}, JWT_SECRET : Secrets \ {""}]
  /\ users = <<>>
  /\ todos = <<>>
  /\ inflight = [s \in Slots |-> Idle]
  /\ issued = {}
  /\ createdBy = <<>>
  /\ client = [ClientOff EXCEPT !.pc = "signup"]

E2ESignup ==
  /\ client.pc = "signup"
  /\ InFlightCount = 0
  /\ \E r \in SignupRequests :
       /\ ~Falsy(r.email)
       /\ ~Falsy(r.password)
       /\ SignupStart(r)

E2ESignupResumes ==
  /\ client.pc = "signup"
  /\ \E s \in Slots, salt \in getRandomValues : SignupCreate(s, salt)

E2ESignin ==
  /\ client.pc = "signin"
  /\ \E a \in PublicAuthHeaders :
       Signin(Req("signin", a, client.sent.email, client.sent.password,
                  Undefined, Undefined, <<>>, 0))

E2ETodo ==
  /\ client.pc = "todo"
  /\ \E b \in TodoBodies :
       /\ ~Falsy(b[1])
       /\ ~Falsy(b[2])
       /\ CreateTodo(Req("todo", Bearer(client.token[1]), Undefined, Undefined,
                         b[1], b[2], b[3], b[4]))

E2ETodos ==
  /\ client.pc = "todos"
  /\ ListTodos(Req("todos", client.sent.auth, Undefined, Undefined, Undefined,
                   Undefined, <<>>, 0))

NextE2E ==
  \/ E2ESignup
  \/ E2ESignupResumes
  \/ E2ESignin
  \/ E2ETodo
  \/ E2ETodos

SpecE2E == InitE2E /\ [][NextE2E]_vars

\* ------------------------------------------------------------- the claims
\* Responses are not part of the state: a claim about the response to a
\* request is stated of the answer the pipeline computes in a state, for every
\* request the action of that route can take there.

Range(seq) == {seq[i] : i \in 1..Len(seq)}
BearerIssued == {Bearer(t) : t \in issued}
ProtectedRequests == TodoRequests \cup TodosRequests
ProtectedAnswer(r) == IF r.route = "todo" THEN todoAnswer(r).resp ELSE todosAnswer(r)

\* the stored credential u.password is a hash of this password
Matches(u, password) ==
  \E salt \in getRandomValues : u.password = hashPassword(password, salt)

\* C1: the user store never holds two User rows with the same email, however
\* the find and create steps of concurrent signups interleave.
C1_OneUserPerEmail ==
  \A i, j \in 1..Len(users) : i # j => users[i].email # users[j].email

\* C1 witness: a signup that passed the existence check is still suspended
\* while another signup has persisted a User with the same email.
C1_RaceUnderWay ==
  \E s \in Slots :
    /\ inflight[s] # Idle
    /\ \E i \in 1..Len(users) : users[i].email = inflight[s].email

\* C2: a signup for an email that already has a persisted User answers 400 and
\* leaves the users unchanged, whether the duplicate is found by the findFirst
\* check or only by the store rejecting the insert.
C2_DuplicateAlwaysConflict ==
  /\ \A r \in SignupRequests :
       (~Falsy(r.email) /\ ~Falsy(r.password)
          /\ \E i \in 1..Len(users) : users[i].email = r.email)
         => /\ signupStartAnswer(r).kind = "respond"
            /\ signupStartAnswer(r).resp.status = 400
  /\ \A s \in Slots, salt \in getRandomValues :
       (inflight[s] # Idle
          /\ \E i \in 1..Len(users) : users[i].email = inflight[s].email)
         => /\ signupCreate(inflight[s], salt).resp.status = 400
            /\ signupCreate(inflight[s], salt).users = users

\* C3: the list GET /api/v1/todos returns to a request that carries the token
\* issued to user A is exactly the Todo rows created by requests that carried
\* a token issued to A: all of those, and none created under another user.
C3_ListIsTheCallersTodos ==
  \A r \in TodosRequests :
    LET a == todosAnswer(r)
        mine == {todos[i] : i \in {k \in 1..Len(todos) : createdBy[k] = Whose(r)}}
    IN /\ r.auth \in BearerIssued => a.status = 200
       /\ a.status = 200 =>
            /\ Whose(r) # 0
            /\ Len(a.todos) = 1
            /\ Range(a.todos[1]) = mine
            /\ Len(a.todos[1]) = Cardinality(mine)

\* C3 witness: a user with a token lists at least one Todo while the store also
\* holds a Todo of another user.
C3_TwoOwners ==
  \E t \in issued :
    LET a == todosAnswer(Req("todos", Bearer(t), Undefined, Undefined, Undefined,
                             Undefined, <<>>, 0))
    IN /\ a.status = 200
       /\ Len(a.todos[1]) >= 1
       /\ Len(a.todos[1]) < Len(todos)

\* C4: a protected request whose Bearer token fails validation (not a JWT,
\* signed with another key, payload changed) is answered with the same 401
\* Unauthorized as a request without a token, and the handler does not run.
C4_InvalidTokenIs401 ==
  \A r \in ProtectedRequests :
    (\E t \in ClientTokens \ issued : r.auth = Bearer(t))
      => /\ ProtectedAnswer(r) = Json("gate", 401, "Unauthorized")
         /\ r.route = "todo" => todoAnswer(r).todos = todos

\* a header value that is not the word Bearer, one space, and a token
NoBearer(auth) ==
  \/ auth = <<>>
  \/ Len(auth[1]) # 2
  \/ auth[1][1] # Str("Bearer")
  \/ auth[1][2] = Str("")

\* C5: a request to a protected route without an Authorization header, or with
\* one that is not Bearer and a token, is answered 401 by the middleware and
\* creates and lists nothing; signup and signin are answered the same with
\* and without an Authorization header.  (Stated for the headers that carry
\* no token or an issued one; a header carrying a token that fails validation
\* is the case of C4.)
C5_NoBearerIs401 ==
  /\ \A r \in ProtectedRequests :
       (NoBearer(r.auth)
          /\ \A t \in ClientTokens \ issued :
               \A i \in 1..Len(r.auth) : t \notin Range(r.auth[i]))
         => /\ ProtectedAnswer(r) = Json("gate", 401, "Unauthorized")
            /\ r.route = "todo" => todoAnswer(r).todos = todos
  /\ \A r \in SignupRequests :
       signupStartAnswer(r) = signupStartAnswer([r EXCEPT !.auth = <<>>])
  /\ \A r \in SigninRequests :
       signinAnswer(r) = signinAnswer([r EXCEPT !.auth = <<>>])

\* C6: signin answers 200 with a token exactly when a User with the given email
\* exists and the given password is the one its credential was hashed from,
\* and the token names that User; every other signin answers 400 or 500
\* without a token; every token ever issued names an existing User.
C6_TokenOnlyForCredentials ==
  /\ \A r \in SigninRequests :
       LET a == signinAnswer(r)
           holders == {i \in 1..Len(users) :
                         users[i].email = r.email /\ Matches(users[i], r.password)}
       IN /\ a.status = 200 <=> a.token # <<>>
          /\ a.token # <<>> =>
               /\ a.token[1][1] = "jwt"
               /\ \E i \in holders : a.token[1][2].userId = users[i].id
          /\ (Falsy(r.email) \/ Falsy(r.password) \/ holders = {})
               => a.status \in {400, 500} /\ a.token = <<>>
  /\ \A t \in issued : \E i \in 1..Len(users) : users[i].id = t[2].userId

\* C6 witness: a token has been issued, and a signin with the email of a User
\* and another password is answered Invalid password.
C6_RightAndWrongPassword ==
  /\ issued # {}
  /\ \E r \in SigninRequests : signinAnswer(r).msg = "Invalid password"

\* C7: with no JWT_SECRET configured, no signin answers 200 or carries a token
\* (one with the right email and password answers 500), no token has been
\* issued, and the middleware lets no request through that carries a token
\* signed with the empty secret.
C7_NoTokenWithoutSecret ==
  env.JWT_SECRET = "" =>
    /\ \A r \in SigninRequests :
         LET a == signinAnswer(r)
         IN /\ a.status # 200
            /\ a.token = <<>>
            /\ (\E i \in 1..Len(users) :
                  users[i].email = r.email /\ Matches(users[i], r.password))
                 => a.status = 500
    /\ issued = {}
    /\ \A r \in ProtectedRequests :
         (\E v \in UserIds :
            r.auth = Bearer(Jwt(Payload(v, "absent"), Hmac("", Payload(v, "absent")))))
           => through(r).kind # "next"

\* C7 witness: no secret is configured and a User exists, so that a signin
\* with its email and password reaches the signing of a token.
C7_SigninReachesSigning ==
  /\ env.JWT_SECRET = ""
  /\ \E r \in SigninRequests :
       /\ \E i \in 1..Len(users) :
            users[i].email = r.email /\ Matches(users[i], r.password)
       /\ signinAnswer(r).status = 500

\* C8: against an empty store, signup, signin with the same credentials, create
\* a todo with the returned token and list with the same token all answer
\* 200; the todo is owned by the userId signup returned, and the list is
\* exactly that todo.
C8_EndToEnd ==
  /\ client.pc # "failed"
  /\ client.pc \in {"signin", "todo", "todos", "done"} =>
       /\ Len(users) = 1
       /\ client.userId = users[1].id
  /\ client.pc \in {"todo", "todos", "done"} => Len(client.token) = 1
  /\ client.pc \in {"todos", "done"} =>
       /\ Len(client.todo) = 1
       /\ client.todo[1].userId = client.userId
       /\ todos = <<client.todo[1]>>
  /\ client.pc = "done" => client.todos = << <<client.todo[1]>> >>

\* C8 witness: the client has received the answer to its list request.
C8_ScenarioDone == client.pc = "done"

\* C9: every Todo row is owned by the user whose issued token the creating
\* request carried, an existing User; an accepted create persists exactly the
\* returned row with that owner whatever userId the body names; a create
\* without a title or description persists nothing and answers 400.
C9_OwnerIsTheCaller ==
  /\ \A i \in 1..Len(todos) :
       /\ createdBy[i] # 0
       /\ todos[i].userId = createdBy[i]
       /\ \E k \in 1..Len(users) : users[k].id = todos[i].userId
  /\ \A r \in TodoRequests :
       LET out == todoAnswer(r)
       IN /\ out.resp.status = 200 =>
               /\ Whose(r) # 0
               /\ out.resp.ctx = Whose(r)
               /\ out.resp.todo[1].userId = Whose(r)
               /\ out.todos = Append(todos, out.resp.todo[1])
          /\ out.resp.status # 200 => out.todos = todos
          /\ (Falsy(r.title) \/ Falsy(r.description)) =>
               /\ out.resp.status # 200
               /\ r.auth \in BearerIssued => out.resp.status = 400

\* C9 witness: a Todo exists, and a create request whose body names another
\* user than its token is accepted.
C9_BodyNamesAnotherUser ==
  /\ Len(todos) > 0
  /\ \E r \in TodoRequests :
       /\ r.userId # 0
       /\ r.userId # Whose(r)
       /\ todoAnswer(r).resp.status = 200

\* C10: the Todo an accepted create returns and persists has the completed
\* value of the request body, and false when the body gives none.
C10_CompletedFromBody ==
  \A r \in TodoRequests :
    LET out == todoAnswer(r)
        wanted == IF r.completed = <<>> THEN FALSE ELSE r.completed[1]
    IN out.resp.status = 200 =>
         /\ out.resp.todo[1].completed = wanted
         /\ out.todos[Len(out.todos)].completed = wanted

====
